---- MODULE Spec2Model ----
(***************************************************************************)
(* rbx_xml serializer (rbx_xml/src/serializer.rs) and property resolver    *)
(* (rbx_xml/src/core.rs).                                                  *)
(*                                                                         *)
(* Strings that are ordered by the code (property names, sorted at        *)
(* serializer.rs:180) are sequences of byte values, compared as Rust       *)
(* compares String.  Class names and type names are only compared for      *)
(* equality and are TLA+ strings.                                          *)
(***************************************************************************)
EXTENDS Integers, Sequences, FiniteSets, TLC

\* ------------------------------------------------------------------------
\* Property names of the model, as UTF-8 bytes.
\* ------------------------------------------------------------------------
NameProp     == <<78, 97, 109, 101>>   \* "Name"
Archivable   == <<65, 114>>            \* "Ar"
BrickColor   == <<66, 99>>             \* "Bc"   alias of Color
Color        == <<67, 111>>            \* "Co"   serialized as "co3"
DataCost     == <<68, 99>>             \* "Dc"   no canonical form
FormFactor   == <<70, 102>>            \* "Ff"   serialized as "ffr"
Mass         == <<77, 115>>            \* "Ms"
PhysicsData  == <<80, 104>>            \* "Ph"
PrimaryPart  == <<80, 112>>            \* "Pp"
Tags         == <<84, 103>>            \* "Tg"
Zed          == <<90>>                 \* "Z"    declared by no class
Color3uint8  == <<99, 111, 51>>        \* "co3"
formFactorRaw == <<102, 102, 114>>     \* "ffr"

NoName == << >>                        \* Option::None of a name

PropertyNames ==
    { NameProp, Archivable, BrickColor, Color, DataCost, FormFactor, Mass,
      PhysicsData, PrimaryPart, Tags, Zed, Color3uint8, formFactorRaw }

\* Ord for String / &String: bytewise lexicographic (serializer.rs:180).
RECURSIVE StrLess(_, _)
StrLess(a, b) ==
    IF b = << >> THEN FALSE
    ELSE IF a = << >> THEN TRUE
    ELSE IF Head(a) < Head(b) THEN TRUE
    ELSE IF Head(a) > Head(b) THEN FALSE
    ELSE StrLess(Tail(a), Tail(b))

StrLessEq(a, b) == a = b \/ StrLess(a, b)

\* ------------------------------------------------------------------------
\* The reflection database consumed by core.rs (rbx_reflection).
\* ------------------------------------------------------------------------
DataType(t)          == [kind |-> "Data", value_type |-> t]
EnumType(e)          == [kind |-> "Enum", value_type |-> e]
UnimplementedType(t) == [kind |-> "UnimplementedType", value_type |-> t]

Descriptor(n, ty, canon, cname, sname) ==
    [name |-> n, property_type |-> ty, is_canonical |-> canon,
     canonical_name |-> cname, serialized_name |-> sname]

NoDescriptor == Descriptor(NoName, DataType("None"), FALSE, NoName, NoName)

NoSuperclass == "None"

ClassDescriptor(super, props) == [superclass |-> super, properties |-> props]

Database ==
    [c \in {"Instance", "BasePart", "Part", "MeshPart", "Model", "Folder",
            "Decal"} |->
       CASE c = "Instance" ->
              ClassDescriptor(NoSuperclass,
                { Descriptor(NameProp, DataType("String"), TRUE, NoName, NoName),
                  Descriptor(Archivable, DataType("Bool"), TRUE, NoName, NoName),
                  Descriptor(DataCost, DataType("Int32"), FALSE, NoName, NoName),
                  Descriptor(Tags, UnimplementedType("Region3"), TRUE,
                             NoName, NoName) })
         [] c = "BasePart" ->
              ClassDescriptor("Instance",
                { Descriptor(Color, DataType("Int64"), TRUE, NoName, Color3uint8),
                  Descriptor(Color3uint8, DataType("Int64"), FALSE, Color, NoName),
                  Descriptor(BrickColor, DataType("Int32"), FALSE, Color, NoName),
                  Descriptor(Mass, DataType("Int64"), TRUE, NoName, NoName) })
         [] c = "Part" ->
              ClassDescriptor("BasePart",
                { Descriptor(FormFactor, EnumType("FormFactor"), TRUE, NoName,
                             formFactorRaw),
                  Descriptor(formFactorRaw, EnumType("FormFactor"), FALSE,
                             FormFactor, NoName),
                  \* Part redeclares two names of its superclasses
                  Descriptor(Mass, DataType("Int32"), FALSE, NoName, NoName),
                  Descriptor(Tags, DataType("String"), TRUE, NoName, NoName) })
         [] c = "MeshPart" ->
              ClassDescriptor("BasePart",
                { Descriptor(PhysicsData, DataType("SharedString"), TRUE,
                             NoName, NoName) })
         [] c = "Model" ->
              ClassDescriptor("Instance",
                { Descriptor(PrimaryPart, DataType("Ref"), TRUE, NoName, NoName) })
         [] c = "Folder" ->
              ClassDescriptor("Instance", {})
         [] c = "Decal" ->
              ClassDescriptor("Instance",
                { Descriptor(Archivable, DataType("Bool"), FALSE, Color, NoName),
                  Descriptor(Color, DataType("Int32"), TRUE, NoName, NoName) })]

\* Class names a tree or a caller may use; "Mystery" is in no database.
ClassNames == DOMAIN Database \cup {"Mystery"}

\* rbx_reflection::get_class_descriptor
HasClass(class_name) == class_name \in DOMAIN Database

\* RbxClassDescriptor::get_property_descriptor: Some(d) iff the set is not empty
PropertyDescriptorsOf(class_name, property_name) ==
    { d \in Database[class_name].properties : d.name = property_name }

HasPropertyDescriptor(class_name, property_name) ==
    PropertyDescriptorsOf(class_name, property_name) # {}

get_property_descriptor(class_name, property_name) ==
    CHOOSE d \in PropertyDescriptorsOf(class_name, property_name) : TRUE

\* ------------------------------------------------------------------------
\* core.rs: find_property_descriptors
\* The result is Option<(canonical, serialized)>; "Panic" is an unwrap() or
\* expect() on an inconsistent database.  examined counts the class
\* descriptors the loop has looked at.
\* ------------------------------------------------------------------------
SomeDescriptors(canonical, serialized, n) ==
    [kind |-> "Some", canonical |-> canonical, serialized |-> serialized,
     examined |-> n]

NoDescriptors(n) ==
    [kind |-> "None", canonical |-> NoDescriptor, serialized |-> NoDescriptor,
     examined |-> n]

ResolverPanic(n) ==
    [kind |-> "Panic", canonical |-> NoDescriptor, serialized |-> NoDescriptor,
     examined |-> n]

\* core.rs:65-67 and 79-81: descriptor.serialized_name().map(..unwrap()).unwrap_or(descriptor)
SerializedOf(current, canonical, n) ==
    IF canonical.serialized_name = NoName
    THEN SomeDescriptors(canonical, canonical, n)
    ELSE IF HasPropertyDescriptor(current, canonical.serialized_name)
         THEN SomeDescriptors(canonical,
                  get_property_descriptor(current, canonical.serialized_name), n)
         ELSE ResolverPanic(n)

\* faulty variant of ResolveAt: an alias is answered with its canonical
\* descriptor twice, the canonical's serialized_name is not followed
ResolveAt_AliasUnserialized(current, property_name, n) ==
    LET property_descriptor == get_property_descriptor(current, property_name)
    IN  IF property_descriptor.is_canonical
        THEN SerializedOf(current, property_descriptor, n)
        ELSE IF property_descriptor.canonical_name # NoName
             THEN IF HasPropertyDescriptor(current,
                                           property_descriptor.canonical_name)
                  THEN SomeDescriptors(
                         get_property_descriptor(current,
                             property_descriptor.canonical_name),
                         get_property_descriptor(current,
                             property_descriptor.canonical_name), n)
                  ELSE ResolverPanic(n)
             ELSE NoDescriptors(n)

\* core.rs:60-91: the class descriptor declares the property name
ResolveAt(current, property_name, n) ==
    LET property_descriptor == get_property_descriptor(current, property_name)
    IN  IF property_descriptor.is_canonical
        THEN SerializedOf(current, property_descriptor, n)
        ELSE IF property_descriptor.canonical_name # NoName
             THEN IF HasPropertyDescriptor(current,
                                           property_descriptor.canonical_name)
                  THEN SerializedOf(current,
                         get_property_descriptor(current,
                             property_descriptor.canonical_name), n)
                  ELSE ResolverPanic(n)
             ELSE NoDescriptors(n)

\* faulty variant of FindLoop: a superclass is expected of every class
RECURSIVE FindLoop_ExpectSuperclass(_, _, _)
FindLoop_ExpectSuperclass(current, property_name, examined) ==
    LET n == examined + 1
    IN  IF HasPropertyDescriptor(current, property_name)
        THEN ResolveAt(current, property_name, n)
        ELSE IF HasClass(Database[current].superclass)
             THEN FindLoop_ExpectSuperclass(Database[current].superclass,
                                            property_name, n)
             ELSE ResolverPanic(n)

\* core.rs:57-105: one iteration of the loop per class descriptor
RECURSIVE FindLoop(_, _, _)
FindLoop(current, property_name, examined) ==
    LET n == examined + 1
    IN  IF HasPropertyDescriptor(current, property_name)
        THEN ResolveAt(current, property_name, n)
        ELSE IF Database[current].superclass # NoSuperclass
             THEN IF HasClass(Database[current].superclass)
                  THEN FindLoop(Database[current].superclass, property_name, n)
                  ELSE ResolverPanic(n)
             ELSE NoDescriptors(n)

\* faulty variant of find_property_descriptors: the class is expected to be
\* in the database
find_property_descriptors_ExpectClass(class_name, property_name) ==
    IF ~HasClass(class_name)
    THEN ResolverPanic(0)
    ELSE FindLoop(class_name, property_name, 0)

\* core.rs:44-50
find_property_descriptors(class_name, property_name) ==
    IF ~HasClass(class_name)
    THEN NoDescriptors(0)
    ELSE FindLoop(class_name, property_name, 0)

\* core.rs:26-32
find_canonical_property_descriptor(class_name, property_name) ==
    LET found == find_property_descriptors(class_name, property_name)
    IN  [kind |-> found.kind, descriptor |-> found.canonical]

\* core.rs:34-40
find_serialized_property_descriptor(class_name, property_name) ==
    LET found == find_property_descriptors(class_name, property_name)
    IN  [kind |-> found.kind, descriptor |-> found.serialized]

\* ------------------------------------------------------------------------
\* Values (rbx_dom_weak::RbxValue): a type tag and a payload.  Every payload
\* is a sequence of numbers: the bytes of a string or blob, <<n>> for a
\* number, <<id>> for Some(id) of a Ref and << >> for None.
\* ------------------------------------------------------------------------
Value(t, d) == [type |-> t, data |-> d]

BlobA == <<1, 2>>
BlobB == <<2, 1>>

\* RbxValue::get_type
get_type(value) == value.type

\* RbxValue::try_convert_ref (rbx_dom_weak): Unnecessary on the same type,
\* Converted along the conversion table, Failed otherwise.
Convertible == { <<"Int32", "Int64">>, <<"Float32", "Float64">> }

try_convert_ref(value, target_type) ==
    IF get_type(value) = target_type
    THEN [kind |-> "Unnecessary", value |-> value]
    ELSE IF <<get_type(value), target_type>> \in Convertible
         THEN [kind |-> "Converted", value |-> Value(target_type, value.data)]
         ELSE [kind |-> "Failed", value |-> value]

\* XmlType::XML_TAG_NAME of each value type (core.rs:13)
WireTag(t) ==
    CASE t = "String" -> "string"
      [] t = "Bool" -> "bool"
      [] t = "Int32" -> "int"
      [] t = "Int64" -> "int64"
      [] t = "Float32" -> "float"
      [] t = "Float64" -> "double"
      [] t = "Enum" -> "token"
      [] t = "Ref" -> "Ref"
      [] t = "SharedString" -> "SharedString"
      [] OTHER -> "unknown"

\* SharedString::md5_hash: a digest of the blob's bytes (two bytes wide here,
\* order sensitive, and without collision on the blobs of the model).
RECURSIVE WeightedSum(_, _)
WeightedSum(bytes, i) ==
    IF bytes = << >> THEN 0 ELSE i * Head(bytes) + WeightedSum(Tail(bytes), i + 1)

md5_hash(data) == << WeightedSum(data, 1) % 256,
                     (Len(data) + WeightedSum(data, 2)) % 256 >>

\* base64::encode: three bytes become four sextets, 64 stands for the '=' pad.
RECURSIVE Base64(_)
Base64(bytes) ==
    IF bytes = << >> THEN << >>
    ELSE IF Len(bytes) = 1
         THEN << bytes[1] \div 4, (bytes[1] % 4) * 16, 64, 64 >>
    ELSE IF Len(bytes) = 2
         THEN << bytes[1] \div 4, (bytes[1] % 4) * 16 + bytes[2] \div 16,
                 (bytes[2] % 16) * 4, 64 >>
    ELSE << bytes[1] \div 4, (bytes[1] % 4) * 16 + bytes[2] \div 16,
            (bytes[2] % 16) * 4 + bytes[3] \div 64, bytes[3] % 64 >>
         \o Base64(SubSeq(bytes, 4, Len(bytes)))

\* ------------------------------------------------------------------------
\* Trees (rbx_dom_weak::RbxTree): RbxId -> RbxInstance
\* ------------------------------------------------------------------------
NodeIds == {1, 2, 3}

Node(class_name, name, properties, children) ==
    [class_name |-> class_name, name |-> name, properties |-> properties,
     children |-> children]

NoProperties == [n \in {} |-> Value("String", << >>)]

Prop1(n1, v1) == [n \in {n1} |-> v1]
Prop2(n1, v1, n2, v2) == [n \in {n1, n2} |-> IF n = n1 THEN v1 ELSE v2]
Prop3(n1, v1, n2, v2, n3, v3) ==
    [n \in {n1, n2, n3} |-> IF n = n1 THEN v1 ELSE IF n = n2 THEN v2 ELSE v3]

\* every property is known to the database and convertible
TreePlain ==
    [id \in NodeIds |->
       CASE id = 1 -> Node("Part", <<80>>,
                        Prop3(Archivable, Value("Bool", <<1>>),
                              FormFactor, Value("Enum", <<2>>),
                              Tags, Value("String", <<7>>)),
                        <<2, 3>>)
         [] id = 2 -> Node("MeshPart", <<77>>,
                        Prop3(Color, Value("Int32", <<5>>),
                              Mass, Value("Int32", <<9>>),
                              PhysicsData, Value("SharedString", BlobA)),
                        << >>)
         [] id = 3 -> Node("Model", <<71>>,
                        Prop1(PrimaryPart, Value("Ref", <<2>>)),
                        << >>)]

\* two blobs, each referenced by a known and by an unknown property
TreeShared ==
    [id \in NodeIds |->
       CASE id = 1 -> Node("Folder", <<70>>, NoProperties, <<2, 3>>)
         [] id = 2 -> Node("MeshPart", <<77>>,
                        Prop2(PhysicsData, Value("SharedString", BlobA),
                              Zed, Value("SharedString", BlobB)),
                        << >>)
         [] id = 3 -> Node("MeshPart", <<78>>,
                        Prop2(PhysicsData, Value("SharedString", BlobB),
                              Zed, Value("SharedString", BlobA)),
                        << >>)]

\* undeclared names, names without a canonical form, an unimplemented type,
\* a class the database does not know
TreeUnknown ==
    [id \in NodeIds |->
       CASE id = 1 -> Node("Part", <<80>>,
                        Prop3(FormFactor, Value("Enum", <<1>>),
                              Mass, Value("Int32", <<9>>),
                              Zed, Value("String", <<7>>)),
                        <<2>>)
         [] id = 2 -> Node("MeshPart", <<77>>,
                        Prop3(Archivable, Value("Bool", <<0>>),
                              DataCost, Value("Int32", <<3>>),
                              Tags, Value("Float32", <<8>>)),
                        <<3>>)
         [] id = 3 -> Node("Mystery", <<89>>,
                        Prop2(Archivable, Value("Bool", <<1>>),
                              Zed, Value("String", <<6>>)),
                        << >>)]

\* references to a node visited later, to a node visited earlier, to the parent
TreeRefs ==
    [id \in NodeIds |->
       CASE id = 1 -> Node("Model", <<71>>,
                        Prop1(PrimaryPart, Value("Ref", <<3>>)),
                        <<2, 3>>)
         [] id = 2 -> Node("Model", <<72>>,
                        Prop2(PrimaryPart, Value("Ref", <<1>>),
                              Tags, Value("Float32", <<8>>)),
                        << >>)
         [] id = 3 -> Node("Folder", <<70>>,
                        Prop1(Zed, Value("Ref", <<2>>)),
                        << >>)]

\* a Ref to nothing, a stored "Name", an alias stored next to its canonical
\* name, a value that cannot be converted
TreeConvert ==
    [id \in NodeIds |->
       CASE id = 1 -> Node("Model", <<71>>,
                        Prop1(PrimaryPart, Value("Ref", << >>)),
                        <<2, 3>>)
         [] id = 2 -> Node("MeshPart", <<77>>,
                        Prop3(BrickColor, Value("Int32", <<4>>),
                              Color, Value("Int64", <<5>>),
                              NameProp, Value("String", <<88>>)),
                        << >>)
         [] id = 3 -> Node("MeshPart", <<78>>,
                        Prop2(Archivable, Value("Bool", <<1>>),
                              Mass, Value("String", <<9>>)),
                        << >>)]

Trees == { TreePlain, TreeShared, TreeUnknown, TreeRefs, TreeConvert }

\* RbxInstance::get_children_ids
get_children_ids(instance) == instance.children

\* ------------------------------------------------------------------------
\* serializer.rs: EncodeOptions, EmitState
\* ------------------------------------------------------------------------
PropertyBehaviors == {"IgnoreUnknown", "WriteUnknown", "ErrorOnUnknown",
                      "NoReflection"}

EncodeOptions(behavior) == [property_behavior |-> behavior]

\* faulty variant of use_reflection: compares with the default behavior
use_reflection_Default(opts) == opts.property_behavior # "IgnoreUnknown"

\* serializer.rs:100-102
use_reflection(opts) == opts.property_behavior # "NoReflection"

NoReferents == [id \in {} |-> 0]
NoSharedStrings == [h \in {} |-> << >>]

\* serializer.rs:127-134
EmitStateNew(opts) ==
    [options |-> opts, referent_map |-> NoReferents, next_referent |-> 0,
     shared_strings_to_emit |-> NoSharedStrings]

\* faulty variant of map_id: next_referent is not advanced
map_id_Stuck(st, id) ==
    IF id \in DOMAIN st.referent_map
    THEN [referent |-> st.referent_map[id], state |-> st]
    ELSE [referent |-> st.next_referent,
          state |-> [st EXCEPT
                       !.referent_map =
                           [i \in DOMAIN st.referent_map \cup {id} |->
                              IF i = id THEN st.next_referent
                              ELSE st.referent_map[i]]]]

\* faulty variant of map_id: a mapped id is numbered again
map_id_Renumbers(st, id) ==
    [referent |-> st.next_referent,
     state |-> [st EXCEPT
                  !.referent_map =
                      [i \in DOMAIN st.referent_map \cup {id} |->
                         IF i = id THEN st.next_referent
                         ELSE st.referent_map[i]],
                  !.next_referent = st.next_referent + 1]]

\* serializer.rs:136-146; the result is the referent and the state after
map_id(st, id) ==
    IF id \in DOMAIN st.referent_map
    THEN [referent |-> st.referent_map[id], state |-> st]
    ELSE [referent |-> st.next_referent,
          state |-> [st EXCEPT
                       !.referent_map =
                           [i \in DOMAIN st.referent_map \cup {id} |->
                              IF i = id THEN st.next_referent
                              ELSE st.referent_map[i]],
                       !.next_referent = st.next_referent + 1]]

\* faulty variant of add_shared_string: the map is replaced, not extended
add_shared_string_Replace(st, data) ==
    [st EXCEPT !.shared_strings_to_emit = [h \in {md5_hash(data)} |-> data]]

\* serializer.rs:148-150: HashMap::insert keyed by the digest
add_shared_string(st, data) ==
    [st EXCEPT !.shared_strings_to_emit =
        [h \in DOMAIN st.shared_strings_to_emit \cup {md5_hash(data)} |->
           IF h = md5_hash(data) THEN data ELSE st.shared_strings_to_emit[h]]]

\* ------------------------------------------------------------------------
\* Events handed to XmlEventWriter.  A property element (start element with
\* its name attribute, payload, end element) is one event of kind "property".
\* ------------------------------------------------------------------------
Event(kind, tag, class, referent, name, text) ==
    [kind |-> kind, tag |-> tag, class |-> class, referent |-> referent,
     name |-> name, text |-> text]

StartRoblox        == Event("start", "roblox", "", -1, NoName, <<4>>)
StartItem(c, ref)  == Event("start", "Item", c, ref, NoName, << >>)
StartProperties    == Event("start", "Properties", "", -1, NoName, << >>)
StartSharedStrings == Event("start", "SharedStrings", "", -1, NoName, << >>)
StartSharedString(md5) == Event("start", "SharedString", "", -1, md5, << >>)
Characters(text)   == Event("characters", "", "", -1, NoName, text)
EndElement         == Event("end", "", "", -1, NoName, << >>)
PropertyElement(tag, name, text) == Event("property", tag, "", -1, name, text)

NullText == <<110, 117, 108, 108>>     \* "null"

\* An entry of the output: the event, and the node and stored property it
\* was written for (0 and NoName when there is none).
Entry(event, node, stored) == [event |-> event, node |-> node, stored |-> stored]

\* types::write_value_xml: dispatch on the value's type.  A Ref is written as
\* the referent of its target, which EmitState hands out through map_id (the
\* only access serializer.rs:136 gives); a SharedString is registered with
\* add_shared_string and written as its digest.
write_value_xml(st, name, value) ==
    CASE get_type(value) = "Ref" /\ value.data # << >> ->
           LET m == map_id(st, value.data[1])
           IN  [state |-> m.state,
                event |-> PropertyElement(WireTag("Ref"), name, <<m.referent>>)]
      [] get_type(value) = "Ref" /\ value.data = << >> ->
           [state |-> st,
            event |-> PropertyElement(WireTag("Ref"), name, NullText)]
      [] get_type(value) = "SharedString" ->
           [state |-> add_shared_string(st, value.data),
            event |-> PropertyElement(WireTag("SharedString"), name,
                                      Base64(md5_hash(value.data)))]
      [] OTHER ->
           [state |-> st,
            event |-> PropertyElement(WireTag(get_type(value)), name, value.data)]

\* ------------------------------------------------------------------------
\* Results of encode_internal (error.rs EncodeErrorKind)
\* ------------------------------------------------------------------------
Result(kind, class_name, property_name, expected_type, actual_type) ==
    [kind |-> kind, class_name |-> class_name, property_name |-> property_name,
     expected_type |-> expected_type, actual_type |-> actual_type]

Pending == Result("Pending", "", NoName, "", "")
Ok      == Result("Ok", "", NoName, "", "")
Panic   == Result("Panic", "", NoName, "", "")
UnknownProperty(c, p) == Result("UnknownProperty", c, p, "", "")
UnsupportedPropertyConversion(c, p, expected, actual) ==
    Result("UnsupportedPropertyConversion", c, p, expected, actual)

\* ------------------------------------------------------------------------
\* serializer.rs:182-249: what the loop body does with one stored property
\* ------------------------------------------------------------------------
Write(name, value) == [kind |-> "write", name |-> name, value |-> value, error |-> Ok]
Skip == [kind |-> "skip", name |-> NoName, value |-> Value("String", << >>), error |-> Ok]
Fail(error) == [kind |-> "fail", name |-> NoName, value |-> Value("String", << >>),
                error |-> error]

\* serializer.rs:183-187
maybe_serialized_descriptor(opts, class_name, property_name) ==
    IF use_reflection(opts)
    THEN find_serialized_property_descriptor(class_name, property_name)
    ELSE [kind |-> "None", descriptor |-> NoDescriptor]

\* faulty variant of ConvertAndWrite: the element keeps the stored name
ConvertAndWrite_StoredName(class_name, property_name, value, value_type, descriptor) ==
    LET conversion == try_convert_ref(value, value_type)
    IN  IF conversion.kind = "Failed"
        THEN Fail(UnsupportedPropertyConversion(class_name, property_name,
                                                value_type, get_type(value)))
        ELSE Write(property_name, conversion.value)

\* serializer.rs:219-230
ConvertAndWrite(class_name, property_name, value, value_type, descriptor) ==
    LET conversion == try_convert_ref(value, value_type)
    IN  IF conversion.kind = "Failed"
        THEN Fail(UnsupportedPropertyConversion(class_name, property_name,
                                                value_type, get_type(value)))
        ELSE Write(descriptor.name, conversion.value)

\* faulty variant of Resolved: WriteUnknown converts to the descriptor's
\* unimplemented type instead of the value's own type
Resolved_ConvertsUnimplemented(opts, class_name, property_name, value, descriptor) ==
    CASE descriptor.property_type.kind = "Data" ->
           ConvertAndWrite(class_name, property_name, value,
                           descriptor.property_type.value_type, descriptor)
      [] descriptor.property_type.kind = "Enum" ->
           ConvertAndWrite(class_name, property_name, value, "Enum", descriptor)
      [] OTHER ->
           CASE opts.property_behavior = "IgnoreUnknown" -> Skip
             [] opts.property_behavior = "WriteUnknown" ->
                  ConvertAndWrite(class_name, property_name, value,
                                  descriptor.property_type.value_type, descriptor)
             [] opts.property_behavior = "ErrorOnUnknown" ->
                  Fail(UnknownProperty(class_name, property_name))
             [] OTHER -> Fail(Panic)

\* serializer.rs:189-217
Resolved(opts, class_name, property_name, value, descriptor) ==
    CASE descriptor.property_type.kind = "Data" ->
           ConvertAndWrite(class_name, property_name, value,
                           descriptor.property_type.value_type, descriptor)
      [] descriptor.property_type.kind = "Enum" ->
           ConvertAndWrite(class_name, property_name, value, "Enum", descriptor)
      [] OTHER ->
           CASE opts.property_behavior = "IgnoreUnknown" -> Skip
             [] opts.property_behavior = "WriteUnknown" ->
                  ConvertAndWrite(class_name, property_name, value,
                                  get_type(value), descriptor)
             [] opts.property_behavior = "ErrorOnUnknown" ->
                  Fail(UnknownProperty(class_name, property_name))
             [] OTHER -> Fail(Panic)

\* faulty variant of Unresolved: WriteUnknown is handled like IgnoreUnknown
Unresolved_WriteSkips(opts, class_name, property_name, value) ==
    CASE opts.property_behavior \in {"IgnoreUnknown", "WriteUnknown"} -> Skip
      [] opts.property_behavior = "NoReflection" -> Write(property_name, value)
      [] opts.property_behavior = "ErrorOnUnknown" ->
           Fail(UnknownProperty(class_name, property_name))
      [] OTHER -> Fail(Panic)

\* serializer.rs:231-248
Unresolved(opts, class_name, property_name, value) ==
    CASE opts.property_behavior = "IgnoreUnknown" -> Skip
      [] opts.property_behavior \in {"WriteUnknown", "NoReflection"} ->
           Write(property_name, value)
      [] opts.property_behavior = "ErrorOnUnknown" ->
           Fail(UnknownProperty(class_name, property_name))
      [] OTHER -> Fail(Panic)

PropertyOutcome(opts, class_name, property_name, value) ==
    LET found == maybe_serialized_descriptor(opts, class_name, property_name)
    IN  CASE found.kind = "Some" ->
               Resolved(opts, class_name, property_name, value, found.descriptor)
          [] found.kind = "None" ->
               Unresolved(opts, class_name, property_name, value)
          [] OTHER -> Fail(Panic)

\* ------------------------------------------------------------------------
\* serializer.rs:179-180: the property buffer
\* ------------------------------------------------------------------------
\* the orders in which a HashMap may hand out the entries of a property map
IterationOrders(properties) ==
    LET n == Cardinality(DOMAIN properties)
        keys == { f \in [1..n -> DOMAIN properties] :
                    \A i, j \in 1..n : i # j => f[i] # f[j] }
    IN  { [i \in 1..n |-> <<f[i], properties[f[i]]>>] : f \in keys }

RECURSIVE InsertByKey(_, _)
InsertByKey(sorted, item) ==
    IF sorted = << >> THEN <<item>>
    ELSE IF StrLess(item[1], Head(sorted)[1]) THEN <<item>> \o sorted
    ELSE <<Head(sorted)>> \o InsertByKey(Tail(sorted), item)

\* faulty variant of sort_unstable_by_key: the buffer is left as it was filled
sort_unstable_by_key_Skipped(buffer) == buffer

\* Vec::sort_unstable_by_key(|(key, _)| *key); the keys of one map are distinct
RECURSIVE sort_unstable_by_key(_)
sort_unstable_by_key(buffer) ==
    IF buffer = << >> THEN << >>
    ELSE InsertByKey(sort_unstable_by_key(Tail(buffer)), Head(buffer))

\* ------------------------------------------------------------------------
\* State
\* ------------------------------------------------------------------------
VARIABLES
    tree,             \* the RbxTree handed to encode_internal (read only)
    ids,              \* the root ids handed to encode_internal
    options,          \* the EncodeOptions handed to encode_internal
    active,           \* the encode calls that are made
    pc,               \* per call: position in encode_internal
    root_idx,         \* per call: index into ids of the next root (line 32)
    stack,            \* per call: the serialize_instance activations
    property_buffer,  \* per call: property_buffer (line 31)
    state,            \* per call: its EmitState (line 27)
    output,           \* per call: the events written so far
    result,           \* per call: what encode_internal returned
    consulted,        \* per call: the (class, name) pairs given to the resolver
    query             \* the last call of find_property_descriptors from outside

vars == <<tree, ids, options, active, pc, root_idx, stack, property_buffer,
          state, output, result, consulted, query>>

inputs == <<tree, ids, options, active>>

Runs == {1, 2}

MaxRoots == 2
MaxPairRoots == 1

RootLists(max) == UNION { [1..n -> NodeIds] : n \in 0..max }

NoQuery == [class_name |-> "", property_name |-> NoName,
            found |-> NoDescriptors(0),
            canonical |-> [kind |-> "None", descriptor |-> NoDescriptor],
            serialized |-> [kind |-> "None", descriptor |-> NoDescriptor]]

Frame(id, phase, next_child) ==
    [id |-> id, phase |-> phase, next_child |-> next_child]

InitCalls ==
    /\ pc = [r \in Runs |-> "begin"]
    /\ root_idx = [r \in Runs |-> 1]
    /\ stack = [r \in Runs |-> << >>]
    /\ property_buffer = [r \in Runs |-> << >>]
    /\ state = [r \in Runs |-> EmitStateNew(options)]
    /\ output = [r \in Runs |-> << >>]
    /\ result = [r \in Runs |-> Pending]
    /\ consulted = [r \in Runs |-> {}]
    /\ query = NoQuery

\* one encode call
Init ==
    /\ tree \in Trees
    /\ ids \in RootLists(MaxRoots)
    /\ options \in { EncodeOptions(b) : b \in PropertyBehaviors }
    /\ active = {1}
    /\ InitCalls

\* two encode calls on the same tree, root ids and options
InitPair ==
    /\ tree \in Trees
    /\ ids \in RootLists(MaxPairRoots)
    /\ options \in { EncodeOptions(b) : b \in PropertyBehaviors }
    /\ active = Runs
    /\ InitCalls

\* no encode call: the resolver is called directly
InitResolver ==
    /\ tree = TreePlain
    /\ ids = << >>
    /\ options = EncodeOptions("IgnoreUnknown")
    /\ active = {}
    /\ InitCalls

Top(r) == stack[r][Len(stack[r])]
Pop(s) == SubSeq(s, 1, Len(s) - 1)
ReplaceTop(s, frame) == [s EXCEPT ![Len(s)] = frame]

\* faulty variant of EncodeBegin: the EmitState is one per process, set anew
\* whenever a call begins
EncodeBegin_OneEmitState(r) ==
    /\ r \in active
    /\ pc[r] = "begin"
    /\ pc' = [pc EXCEPT ![r] = "instances"]
    /\ state' = [x \in Runs |-> EmitStateNew(options)]
    /\ output' = [output EXCEPT ![r] = Append(@, Entry(StartRoblox, 0, NoName))]
    /\ property_buffer' = [property_buffer EXCEPT ![r] = << >>]
    /\ UNCHANGED <<inputs, root_idx, stack, result, consulted, query>>

\* ------------------------------------------------------------------------
\* encode_internal
\* ------------------------------------------------------------------------
\* serializer.rs:26-31
EncodeBegin(r) ==
    /\ r \in active
    /\ pc[r] = "begin"
    /\ pc' = [pc EXCEPT ![r] = "instances"]
    /\ state' = [state EXCEPT ![r] = EmitStateNew(options)]
    /\ output' = [output EXCEPT ![r] = Append(@, Entry(StartRoblox, 0, NoName))]
    /\ property_buffer' = [property_buffer EXCEPT ![r] = << >>]
    /\ UNCHANGED <<inputs, root_idx, stack, result, consulted, query>>

\* faulty variant of EnterInstance: Name goes through the resolver like a
\* stored property, and is left out where the behavior skips it
EnterInstance_NameResolved(r, id, caller) ==
    LET instance == tree[id]
        mapped == map_id(state[r], id)
        outcome == PropertyOutcome(state[r].options, instance.class_name,
                                   NameProp, Value("String", instance.name))
        name == write_value_xml(mapped.state, NameProp,
                                Value("String", instance.name))
    IN  /\ output' = [output EXCEPT ![r] =
                        @ \o << Entry(StartItem(instance.class_name,
                                                mapped.referent), id, NoName),
                                Entry(StartProperties, id, NoName) >>
                          \o (IF outcome.kind = "write"
                              THEN << Entry(name.event, id, NoName) >>
                              ELSE << >>)]
        /\ state' = [state EXCEPT ![r] = name.state]
        /\ \E order \in IterationOrders(instance.properties) :
              property_buffer' = [property_buffer EXCEPT ![r] =
                                    sort_unstable_by_key(@ \o order)]
        /\ stack' = [stack EXCEPT ![r] = Append(caller, Frame(id, "properties", 1))]

\* serializer.rs:164-180: the head of serialize_instance, up to the sort
EnterInstance(r, id, caller) ==
    LET instance == tree[id]
        mapped == map_id(state[r], id)
        name == write_value_xml(mapped.state, NameProp,
                                Value("String", instance.name))
    IN  /\ output' = [output EXCEPT ![r] =
                        @ \o << Entry(StartItem(instance.class_name,
                                                mapped.referent), id, NoName),
                                Entry(StartProperties, id, NoName),
                                Entry(name.event, id, NoName) >>]
        /\ state' = [state EXCEPT ![r] = name.state]
        /\ \E order \in IterationOrders(instance.properties) :
              property_buffer' = [property_buffer EXCEPT ![r] =
                                    sort_unstable_by_key(@ \o order)]
        /\ stack' = [stack EXCEPT ![r] = Append(caller, Frame(id, "properties", 1))]

\* serializer.rs:32-34
SerializeRoot(r) ==
    /\ r \in active
    /\ pc[r] = "instances"
    /\ stack[r] = << >>
    /\ root_idx[r] <= Len(ids)
    /\ root_idx' = [root_idx EXCEPT ![r] = @ + 1]
    /\ EnterInstance(r, ids[root_idx[r]], << >>)
    /\ UNCHANGED <<inputs, pc, result, consulted, query>>

\* faulty variant of SerializeProperty: an error does not end the call
SerializeProperty_Continues(r) ==
    /\ r \in active
    /\ pc[r] = "instances"
    /\ stack[r] # << >>
    /\ Top(r).phase = "properties"
    /\ property_buffer[r] # << >>
    /\ LET instance == tree[Top(r).id]
           property_name == Head(property_buffer[r])[1]
           value == Head(property_buffer[r])[2]
           outcome == PropertyOutcome(state[r].options, instance.class_name,
                                      property_name, value)
           written == write_value_xml(state[r], outcome.name, outcome.value)
       IN  /\ consulted' = [consulted EXCEPT ![r] =
                  IF use_reflection(state[r].options)
                  THEN @ \cup {<<instance.class_name, property_name>>}
                  ELSE @]
           /\ CASE outcome.kind = "write" ->
                     /\ output' = [output EXCEPT ![r] =
                            Append(@, Entry(written.event, Top(r).id, property_name))]
                     /\ state' = [state EXCEPT ![r] = written.state]
                     /\ property_buffer' = [property_buffer EXCEPT ![r] = Tail(@)]
                     /\ UNCHANGED <<pc, stack, result>>
                [] outcome.kind = "skip" ->
                     /\ property_buffer' = [property_buffer EXCEPT ![r] = Tail(@)]
                     /\ UNCHANGED <<pc, stack, result, output, state>>
                [] OTHER ->
                     \* the error is noted and the loop goes on
                     /\ result' = [result EXCEPT ![r] = outcome.error]
                     /\ property_buffer' = [property_buffer EXCEPT ![r] = Tail(@)]
                     /\ UNCHANGED <<pc, stack, output, state>>
    /\ UNCHANGED <<inputs, root_idx, query>>

\* serializer.rs:182-249: one iteration of the loop over property_buffer
SerializeProperty(r) ==
    /\ r \in active
    /\ pc[r] = "instances"
    /\ stack[r] # << >>
    /\ Top(r).phase = "properties"
    /\ property_buffer[r] # << >>
    /\ LET instance == tree[Top(r).id]
           property_name == Head(property_buffer[r])[1]
           value == Head(property_buffer[r])[2]
           outcome == PropertyOutcome(state[r].options, instance.class_name,
                                      property_name, value)
           written == write_value_xml(state[r], outcome.name, outcome.value)
       IN  /\ consulted' = [consulted EXCEPT ![r] =
                  IF use_reflection(state[r].options)
                  THEN @ \cup {<<instance.class_name, property_name>>}
                  ELSE @]
           /\ CASE outcome.kind = "write" ->
                     /\ output' = [output EXCEPT ![r] =
                            Append(@, Entry(written.event, Top(r).id, property_name))]
                     /\ state' = [state EXCEPT ![r] = written.state]
                     /\ property_buffer' = [property_buffer EXCEPT ![r] = Tail(@)]
                     /\ UNCHANGED <<pc, stack, result>>
                [] outcome.kind = "skip" ->
                     /\ property_buffer' = [property_buffer EXCEPT ![r] = Tail(@)]
                     /\ UNCHANGED <<pc, stack, result, output, state>>
                [] OTHER ->
                     \* return Err(..): every activation returns
                     /\ result' = [result EXCEPT ![r] = outcome.error]
                     /\ pc' = [pc EXCEPT ![r] = "done"]
                     /\ stack' = [stack EXCEPT ![r] = << >>]
                     /\ property_buffer' = [property_buffer EXCEPT ![r] = << >>]
                     /\ UNCHANGED <<output, state>>
    /\ UNCHANGED <<inputs, root_idx, query>>

\* serializer.rs:251
CloseProperties(r) ==
    /\ r \in active
    /\ pc[r] = "instances"
    /\ stack[r] # << >>
    /\ Top(r).phase = "properties"
    /\ property_buffer[r] = << >>
    /\ output' = [output EXCEPT ![r] = Append(@, Entry(EndElement, Top(r).id, NoName))]
    /\ stack' = [stack EXCEPT ![r] =
                   ReplaceTop(@, Frame(Top(r).id, "children", 1))]
    /\ UNCHANGED <<inputs, pc, root_idx, property_buffer, state, result,
                   consulted, query>>

\* serializer.rs:253-255
SerializeChild(r) ==
    /\ r \in active
    /\ pc[r] = "instances"
    /\ stack[r] # << >>
    /\ Top(r).phase = "children"
    /\ Top(r).next_child <= Len(get_children_ids(tree[Top(r).id]))
    /\ EnterInstance(r, get_children_ids(tree[Top(r).id])[Top(r).next_child],
                     ReplaceTop(stack[r], Frame(Top(r).id, "children",
                                                Top(r).next_child + 1)))
    /\ UNCHANGED <<inputs, pc, root_idx, result, consulted, query>>

\* faulty variant of LeaveInstance: returns without closing the Item
LeaveInstance_Unclosed(r) ==
    /\ r \in active
    /\ pc[r] = "instances"
    /\ stack[r] # << >>
    /\ Top(r).phase = "children"
    /\ Top(r).next_child > Len(get_children_ids(tree[Top(r).id]))
    /\ stack' = [stack EXCEPT ![r] = Pop(@)]
    /\ UNCHANGED <<inputs, pc, root_idx, property_buffer, state, result,
                   consulted, query, output>>

\* serializer.rs:257-259
LeaveInstance(r) ==
    /\ r \in active
    /\ pc[r] = "instances"
    /\ stack[r] # << >>
    /\ Top(r).phase = "children"
    /\ Top(r).next_child > Len(get_children_ids(tree[Top(r).id]))
    /\ output' = [output EXCEPT ![r] = Append(@, Entry(EndElement, Top(r).id, NoName))]
    /\ stack' = [stack EXCEPT ![r] = Pop(@)]
    /\ UNCHANGED <<inputs, pc, root_idx, property_buffer, state, result,
                   consulted, query>>

\* the orders in which HashMap::values() may hand out the shared strings
ValueOrders(map) ==
    LET n == Cardinality(DOMAIN map)
    IN  { f \in [1..n -> DOMAIN map] : \A i, j \in 1..n : i # j => f[i] # f[j] }

\* serializer.rs:273-277
RECURSIVE SharedStringEntries(_, _)
SharedStringEntries(map, order) ==
    IF order = << >> THEN << >>
    ELSE << Entry(StartSharedString(Base64(md5_hash(map[Head(order)]))), 0, NoName),
            Entry(Characters(Base64(map[Head(order)])), 0, NoName),
            Entry(EndElement, 0, NoName) >>
         \o SharedStringEntries(map, Tail(order))

\* faulty variant of serialize_shared_strings: no early return on an empty
\* dictionary
serialize_shared_strings_Always(st, order) ==
    << Entry(StartSharedStrings, 0, NoName) >>
    \o SharedStringEntries(st.shared_strings_to_emit, order)
    \o << Entry(EndElement, 0, NoName) >>

\* serializer.rs:262-282
serialize_shared_strings(st, order) ==
    IF DOMAIN st.shared_strings_to_emit = {}
    THEN << >>
    ELSE << Entry(StartSharedStrings, 0, NoName) >>
         \o SharedStringEntries(st.shared_strings_to_emit, order)
         \o << Entry(EndElement, 0, NoName) >>

\* serializer.rs:36
SerializeSharedStrings(r) ==
    /\ r \in active
    /\ pc[r] = "instances"
    /\ stack[r] = << >>
    /\ root_idx[r] > Len(ids)
    /\ \E order \in ValueOrders(state[r].shared_strings_to_emit) :
          output' = [output EXCEPT ![r] =
                       @ \o serialize_shared_strings(state[r], order)]
    /\ pc' = [pc EXCEPT ![r] = "close"]
    /\ UNCHANGED <<inputs, root_idx, stack, property_buffer, state, result,
                   consulted, query>>

\* serializer.rs:38-40
EncodeEnd(r) ==
    /\ r \in active
    /\ pc[r] = "close"
    /\ output' = [output EXCEPT ![r] = Append(@, Entry(EndElement, 0, NoName))]
    /\ result' = [result EXCEPT ![r] = Ok]
    /\ pc' = [pc EXCEPT ![r] = "done"]
    /\ UNCHANGED <<inputs, root_idx, stack, property_buffer, state, consulted,
                   query>>

\* core.rs:26-47: the resolver called for any class and name
Lookup ==
    /\ active = {}
    /\ \E c \in ClassNames, p \in PropertyNames :
          query' = [class_name |-> c, property_name |-> p,
                    found |-> find_property_descriptors(c, p),
                    canonical |-> find_canonical_property_descriptor(c, p),
                    serialized |-> find_serialized_property_descriptor(c, p)]
    /\ UNCHANGED <<inputs, pc, root_idx, stack, property_buffer, state, output,
                   result, consulted>>

Next ==
    \/ \E r \in Runs : EncodeBegin(r)
    \/ \E r \in Runs : SerializeRoot(r)
    \/ \E r \in Runs : SerializeProperty(r)
    \/ \E r \in Runs : CloseProperties(r)
    \/ \E r \in Runs : SerializeChild(r)
    \/ \E r \in Runs : LeaveInstance(r)
    \/ \E r \in Runs : SerializeSharedStrings(r)
    \/ \E r \in Runs : EncodeEnd(r)

Spec == Init /\ [][Next]_vars

SpecPair == InitPair /\ [][Next]_vars

SpecResolver == InitResolver /\ [][Lookup]_vars

\* ------------------------------------------------------------------------
\* Vocabulary of the properties below
\* ------------------------------------------------------------------------
Done(r) == pc[r] = "done"
Succeeded(r) == Done(r) /\ result[r].kind = "Ok"

\* the events of a call, as the writer received them
Written(r) == [i \in 1..Len(output[r]) |-> output[r][i].event]

IsProperty(e) == e.event.kind = "property"
IsStored(e) == IsProperty(e) /\ e.stored # NoName
IsItemStart(e) == e.event.kind = "start" /\ e.event.tag = "Item"
IsDictionaryEntry(e) == e.event.kind = "start" /\ e.event.tag = "SharedString"

Entries(r) == { output[r][i] : i \in 1..Len(output[r]) }

\* the class and its superclasses, nearest first, read off the database
RECURSIVE SuperclassChain(_)
SuperclassChain(c) ==
    IF ~HasClass(c) THEN << >>
    ELSE <<c>> \o (IF Database[c].superclass = NoSuperclass THEN << >>
                   ELSE SuperclassChain(Database[c].superclass))

Declaring(c, p) ==
    { i \in 1..Len(SuperclassChain(c)) :
        \E d \in Database[SuperclassChain(c)[i]].properties : d.name = p }

Nearest(c, p) ==
    SuperclassChain(c)[CHOOSE i \in Declaring(c, p) :
                          \A j \in Declaring(c, p) : i <= j]

DeclaredAt(c, p) == CHOOSE d \in Database[c].properties : d.name = p

\* no class of the chain declares the name
Undeclared(c, p) == HasClass(c) /\ Declaring(c, p) = {}

\* the nearest declaration is neither canonical nor an alias
Unrepresentable(c, p) ==
    /\ HasClass(c)
    /\ Declaring(c, p) # {}
    /\ ~DeclaredAt(Nearest(c, p), p).is_canonical
    /\ DeclaredAt(Nearest(c, p), p).canonical_name = NoName

\* ------------------------------------------------------------------------
\* C1: two encode calls on the same tree, root ids and options write the
\* same sequence of events, the entries of the SharedStrings block included.
\* ------------------------------------------------------------------------
C1_SameOutputTwice ==
    (Done(1) /\ Done(2)) => Written(1) = Written(2)

\* ------------------------------------------------------------------------
\* C2: under every behavior that uses reflection, a stored property whose
\* nearest declaration is neither canonical nor an alias is never written
\* and never makes the call fail with UnknownProperty.
\* ------------------------------------------------------------------------
C2_UnrepresentableSkipped ==
    \A r \in active :
       use_reflection(options) =>
          /\ \A e \in Entries(r) :
                IsStored(e) => ~Unrepresentable(tree[e.node].class_name, e.stored)
          /\ ~(/\ result[r].kind = "UnknownProperty"
               /\ Unrepresentable(result[r].class_name, result[r].property_name))

\* ------------------------------------------------------------------------
\* The loop body of serialize_instance as a step: call r is about to handle
\* the head of its property buffer, and takes a step.
\* ------------------------------------------------------------------------
AtProperty(r) ==
    /\ r \in active
    /\ pc[r] = "instances"
    /\ stack[r] # << >>
    /\ Top(r).phase = "properties"
    /\ property_buffer[r] # << >>

CurrentNode(r) == Top(r).id
CurrentClass(r) == tree[Top(r).id].class_name
CurrentName(r) == Head(property_buffer[r])[1]
CurrentValue(r) == Head(property_buffer[r])[2]

Handles(r) == AtProperty(r) /\ property_buffer'[r] # property_buffer[r]

\* the step writes nothing and lets the call go on
StepSkips(r) ==
    /\ output'[r] = output[r]
    /\ state'[r] = state[r]
    /\ result'[r] = Pending
    /\ pc'[r] = "instances"
    /\ property_buffer'[r] = Tail(property_buffer[r])

\* the step writes the stored value itself, as one element named name
StepWritesStored(r, name) ==
    /\ output'[r] = Append(output[r],
          Entry(write_value_xml(state[r], name, CurrentValue(r)).event,
                CurrentNode(r), CurrentName(r)))
    /\ output'[r][Len(output'[r])].event.kind = "property"
    /\ output'[r][Len(output'[r])].event.name = name
    /\ output'[r][Len(output'[r])].event.tag = WireTag(CurrentValue(r).type)
    /\ result'[r] = Pending
    /\ pc'[r] = "instances"
    /\ property_buffer'[r] = Tail(property_buffer[r])

\* the step makes the call return the error, and writes nothing
StepFails(r, error) ==
    /\ output'[r] = output[r]
    /\ result'[r] = error
    /\ pc'[r] = "done"

\* how often node n was opened as an Item, and how often its stored
\* property p was written
Visits(r, n) ==
    Cardinality({ i \in 1..Len(output[r]) :
                    IsItemStart(output[r][i]) /\ output[r][i].node = n })

WrittenFor(r, n, p) ==
    Cardinality({ i \in 1..Len(output[r]) :
                    /\ IsStored(output[r][i])
                    /\ output[r][i].node = n
                    /\ output[r][i].stored = p })

Visited(r) == { n \in NodeIds : Visits(r, n) > 0 }

Stored(n) == DOMAIN tree[n].properties

\* ------------------------------------------------------------------------
\* C3: a stored property of a node of a known class that no class of the
\* superclass chain declares.  IgnoreUnknown: handling it writes nothing and
\* the call goes on, so no element of the output stems from it and no error
\* names it.  WriteUnknown: handling it writes the stored value under the
\* stored name with the wire tag of the value's type, once per visit of the
\* node.  ErrorOnUnknown: handling it makes the call return
\* UnknownProperty(class_name, property_name), so a call that visits such a
\* node does not succeed.
\* ------------------------------------------------------------------------
C3_Step ==
    \A r \in Runs :
       (Handles(r) /\ Undeclared(CurrentClass(r), CurrentName(r))) =>
          CASE options.property_behavior = "IgnoreUnknown" -> StepSkips(r)
            [] options.property_behavior = "WriteUnknown" ->
                 StepWritesStored(r, CurrentName(r))
            [] options.property_behavior = "ErrorOnUnknown" ->
                 StepFails(r, UnknownProperty(CurrentClass(r), CurrentName(r)))
            [] OTHER -> TRUE

C3_State ==
    \A r \in active :
       \A n \in NodeIds : \A p \in Stored(n) :
          Undeclared(tree[n].class_name, p) =>
             CASE options.property_behavior = "IgnoreUnknown" ->
                    /\ WrittenFor(r, n, p) = 0
                    /\ ~(/\ result[r].class_name = tree[n].class_name
                         /\ result[r].property_name = p)
               [] options.property_behavior = "WriteUnknown" ->
                    /\ WrittenFor(r, n, p) <= Visits(r, n)
                    /\ Succeeded(r) => WrittenFor(r, n, p) = Visits(r, n)
                    /\ ~(/\ result[r].class_name = tree[n].class_name
                         /\ result[r].property_name = p)
               [] options.property_behavior = "ErrorOnUnknown" ->
                    /\ WrittenFor(r, n, p) = 0
                    /\ Visits(r, n) > 0 => ~Succeeded(r)
               [] OTHER -> TRUE

\* C3: the invariant and the step property together
C3_UnknownPropertyMatrix == []C3_State /\ [][C3_Step]_vars

\* WriteUnknown has written an undeclared property of a node of a known class
C3_Witness ==
    /\ options.property_behavior = "WriteUnknown"
    /\ Succeeded(1)
    /\ \E e \in Entries(1) :
          /\ IsStored(e)
          /\ Undeclared(tree[e.node].class_name, e.stored)
          /\ e.event.name = e.stored

\* ------------------------------------------------------------------------
\* C4: under NoReflection the resolver is given nothing, the call cannot
\* fail, and every stored property of every visited node is written under
\* its stored name with its stored value and type, once per visit,
\* whatever the database says about the class and the name.
\* ------------------------------------------------------------------------
C4_Step ==
    \A r \in Runs :
       (Handles(r) /\ options.property_behavior = "NoReflection") =>
          /\ StepWritesStored(r, CurrentName(r))
          /\ consulted'[r] = {}

C4_State ==
    \A r \in active :
       options.property_behavior = "NoReflection" =>
          /\ consulted[r] = {}
          /\ result[r].kind \in {"Pending", "Ok"}
          /\ \A n \in NodeIds : \A p \in Stored(n) :
                /\ WrittenFor(r, n, p) <= Visits(r, n)
                /\ Succeeded(r) => WrittenFor(r, n, p) = Visits(r, n)
          /\ \A e \in Entries(r) :
                IsStored(e) =>
                   /\ e.event.name = e.stored
                   /\ e.event.tag = WireTag(tree[e.node].properties[e.stored].type)
                   /\ tree[e.node].properties[e.stored].type
                         \notin {"Ref", "SharedString"}
                      => e.event.text = tree[e.node].properties[e.stored].data

\* C4: the invariant and the step property together
C4_NoReflectionVerbatim == []C4_State /\ [][C4_Step]_vars

\* NoReflection has written, under its stored name, a property that the
\* resolver would rename, and one it would not resolve
C4_Witness ==
    /\ options.property_behavior = "NoReflection"
    /\ Succeeded(1)
    /\ \E e \in Entries(1) :
          /\ IsStored(e)
          /\ find_property_descriptors(tree[e.node].class_name, e.stored).kind = "Some"
          /\ find_property_descriptors(tree[e.node].class_name,
                                       e.stored).serialized.name # e.stored
    /\ \E e \in Entries(1) :
          /\ IsStored(e)
          /\ Unrepresentable(tree[e.node].class_name, e.stored)

\* ------------------------------------------------------------------------
\* Referents
\* ------------------------------------------------------------------------
Referents(r) == { state[r].referent_map[i] : i \in DOMAIN state[r].referent_map }

InjectiveReferents(r) ==
    \A i, j \in DOMAIN state[r].referent_map :
       i # j => state[r].referent_map[i] # state[r].referent_map[j]

\* the id an entry of the output makes the call meet: the node of an Item,
\* the target of a written Ref; 0 for every other entry
Encountered(e) ==
    IF IsItemStart(e) THEN e.node
    ELSE IF IsStored(e) /\ e.event.tag = "Ref" /\ e.event.text # NullText
         THEN tree[e.node].properties[e.stored].data[1]
         ELSE 0

Met(r) == { Encountered(e) : e \in Entries(r) } \ {0}

FirstEncounter(r, id) ==
    CHOOSE i \in 1..Len(output[r]) :
       /\ Encountered(output[r][i]) = id
       /\ \A j \in 1..(i - 1) : Encountered(output[r][j]) # id

\* referents count the ids met earlier
NumberedByEncounter(r, ids_) ==
    \A id \in ids_ :
       state[r].referent_map[id] =
          Cardinality({ other \in ids_ :
                          FirstEncounter(r, other) < FirstEncounter(r, id) })

\* ------------------------------------------------------------------------
\* C5: after a successful call the referents of referent_map are pairwise
\* distinct, are exactly 0..n-1 with n the number of distinct nodes visited
\* as Items, and are numbered in the order the nodes were first visited.
\* ------------------------------------------------------------------------
C5_DenseOverItems ==
    \A r \in active :
       Succeeded(r) =>
          /\ InjectiveReferents(r)
          /\ Referents(r) = 0..(Cardinality(Visited(r)) - 1)
          /\ DOMAIN state[r].referent_map = Visited(r)
          /\ NumberedByEncounter(r, Visited(r))

\* C5, amended: after a successful call the referents of referent_map are
\* pairwise distinct and are exactly 0..n-1 with n = next_referent the number
\* of distinct ids that were visited as Items or were the target of a
\* written Ref property; they are numbered in the order in which these ids
\* were first met, as an Item or as a Ref target.
C5_DenseOverMapped ==
    \A r \in active :
       Succeeded(r) =>
          /\ InjectiveReferents(r)
          /\ DOMAIN state[r].referent_map = Met(r)
          /\ Visited(r) \subseteq Met(r)
          /\ Referents(r) = 0..(Cardinality(Met(r)) - 1)
          /\ state[r].next_referent = Cardinality(Met(r))
          /\ NumberedByEncounter(r, Met(r))

\* a successful call has given a referent to a Ref target it never visited,
\* and to one it visited after writing the Ref
C5_Witness ==
    /\ Succeeded(1)
    /\ \E id \in Met(1) : id \notin Visited(1)
    /\ \E id \in Visited(1) :
          ~IsItemStart(output[1][FirstEncounter(1, id)])

\* ------------------------------------------------------------------------
\* Shared strings
\* ------------------------------------------------------------------------
IsSharedStringProperty(e) == IsStored(e) /\ e.event.tag = "SharedString"

\* the blob a written SharedString property refers to
BlobOf(e) == tree[e.node].properties[e.stored].data

\* the blobs handed to add_shared_string, and how often each was
Added(r) == { BlobOf(e) : e \in { x \in Entries(r) : IsSharedStringProperty(x) } }

References(r, blob) ==
    Cardinality({ i \in 1..Len(output[r]) :
                    /\ IsSharedStringProperty(output[r][i])
                    /\ BlobOf(output[r][i]) = blob })

DictionaryEntries(r) ==
    { i \in 1..Len(output[r]) : IsDictionaryEntry(output[r][i]) }

\* ------------------------------------------------------------------------
\* C6: in the output of a successful call every blob that was referenced by
\* one or more written properties has exactly one SharedString entry keyed by
\* its digest, holding its bytes, and the dictionary has exactly one entry
\* per distinct digest added.
\* ------------------------------------------------------------------------
C6_OneEntryPerBlob ==
    \A r \in active :
       Succeeded(r) =>
          /\ \A blob \in Added(r) :
                /\ Cardinality({ i \in DictionaryEntries(r) :
                      output[r][i].event.name = Base64(md5_hash(blob)) }) = 1
                /\ \A i \in DictionaryEntries(r) :
                      output[r][i].event.name = Base64(md5_hash(blob))
                      => output[r][i + 1].event = Characters(Base64(blob))
          /\ Cardinality(DictionaryEntries(r))
                = Cardinality({ md5_hash(blob) : blob \in Added(r) })
          /\ DOMAIN state[r].shared_strings_to_emit
                = { md5_hash(blob) : blob \in Added(r) }

\* a successful call in which two different blobs were each referenced by
\* two properties
C6_Witness ==
    /\ Succeeded(1)
    /\ \E a, b \in Added(1) :
          /\ a # b
          /\ References(1, a) >= 2
          /\ References(1, b) >= 2

\* ------------------------------------------------------------------------
\* Order of the properties of one Item
\* ------------------------------------------------------------------------
\* entries i < j are elements of stored properties in the same Properties block
SameBlock(r, i, j) ==
    /\ i < j
    /\ IsStored(output[r][i])
    /\ IsStored(output[r][j])
    /\ output[r][i].node = output[r][j].node
    /\ \A k \in i..j : output[r][k].event # StartProperties

Positions(r) == 1..Len(output[r])

\* ------------------------------------------------------------------------
\* C7: within one Item the property elements after Name are in lexicographic
\* order, both of the stored names they stem from and of the names written.
\* ------------------------------------------------------------------------
C7_SortedStoredAndWritten ==
    \A r \in active : \A i, j \in Positions(r) :
       SameBlock(r, i, j) =>
          /\ StrLess(output[r][i].stored, output[r][j].stored)
          /\ StrLessEq(output[r][i].event.name, output[r][j].event.name)

\* C7, amended: within one Item the property elements after Name are in
\* strictly increasing lexicographic order of the stored names they stem
\* from, whatever the iteration order of the property map; the names written
\* follow that order only where reflection renames nothing.
C7_SortedByStoredName ==
    \A r \in active : \A i, j \in Positions(r) :
       SameBlock(r, i, j) =>
          /\ StrLess(output[r][i].stored, output[r][j].stored)
          /\ (/\ output[r][i].event.name = output[r][i].stored
              /\ output[r][j].event.name = output[r][j].stored)
             => StrLess(output[r][i].event.name, output[r][j].event.name)

\* a block in which a renamed property is written before a name that sorts
\* before it
C7_Witness ==
    \E i, j \in Positions(1) :
       /\ SameBlock(1, i, j)
       /\ output[1][i].event.name # output[1][i].stored
       /\ StrLess(output[1][j].event.name, output[1][i].event.name)

\* ------------------------------------------------------------------------
\* The resolver
\* ------------------------------------------------------------------------
Asked == query.class_name # ""

ChainLength(c) == Len(SuperclassChain(c))

\* the descriptor a descriptor of class c is serialized as
SerializedAt(c, d) ==
    IF d.serialized_name = NoName THEN d ELSE DeclaredAt(c, d.serialized_name)

\* ------------------------------------------------------------------------
\* C8: find_property_descriptors returns after looking at no more class
\* descriptors than the superclass chain of the class is long, and returns
\* None, with no panic, when no class of the chain declares the name.
\* ------------------------------------------------------------------------
C8_ResolverTerminates ==
    Asked =>
       /\ query.found.kind \in {"Some", "None"}
       /\ query.found.examined <= ChainLength(query.class_name)
       /\ (HasClass(query.class_name)
           /\ Declaring(query.class_name, query.property_name) = {})
          => /\ query.found.kind = "None"
             /\ query.found.examined = ChainLength(query.class_name)

\* a name that none of the three classes of a chain declares
C8_Witness ==
    /\ Asked
    /\ ChainLength(query.class_name) = 3
    /\ Declaring(query.class_name, query.property_name) = {}
    /\ query.found.kind = "None"
    /\ query.found.examined = 3

\* ------------------------------------------------------------------------
\* C9: the resolver answers from the nearest class of the chain that
\* declares the name.  If that declaration is canonical the answer is
\* (itself, the descriptor its serialized_name names on that class, else
\* itself); if it has a canonical_name the answer is (canonical, the
\* descriptor the canonical's serialized_name names on that class, else
\* canonical), canonical being looked up on that class.  What farther
\* superclasses declare under the name plays no part.
\* ------------------------------------------------------------------------
C9_NearestDeclaration ==
    (Asked /\ HasClass(query.class_name)
           /\ Declaring(query.class_name, query.property_name) # {}) =>
       LET at == Nearest(query.class_name, query.property_name)
           declared == DeclaredAt(at, query.property_name)
           canonical == DeclaredAt(at, declared.canonical_name)
       IN  /\ declared.is_canonical =>
                /\ query.found.kind = "Some"
                /\ query.found.canonical = declared
                /\ query.found.serialized = SerializedAt(at, declared)
           /\ (~declared.is_canonical /\ declared.canonical_name # NoName) =>
                /\ query.found.kind = "Some"
                /\ query.found.canonical = canonical
                /\ query.found.serialized = SerializedAt(at, canonical)
           /\ query.found.examined
                 = (CHOOSE i \in 1..ChainLength(query.class_name) :
                       SuperclassChain(query.class_name)[i] = at)
           /\ query.canonical.kind = query.found.kind
           /\ query.canonical.descriptor = query.found.canonical
           /\ query.serialized.kind = query.found.kind
           /\ query.serialized.descriptor = query.found.serialized

\* an alias whose canonical descriptor is serialized under a third name, on
\* a class reached through a subclass
C9_Witness ==
    /\ Asked
    /\ Declaring(query.class_name, query.property_name) # {}
    /\ Nearest(query.class_name, query.property_name) # query.class_name
    /\ query.found.kind = "Some"
    /\ query.found.canonical.name # query.property_name
    /\ query.found.serialized.name # query.found.canonical.name
    /\ query.found.serialized.name # query.property_name

\* ------------------------------------------------------------------------
\* Unimplemented types
\* ------------------------------------------------------------------------
\* the serialized descriptor of a declared name, read off the database
SerializedFor(c, p) ==
    LET at == Nearest(c, p)
        declared == DeclaredAt(at, p)
    IN  IF declared.is_canonical THEN SerializedAt(at, declared)
        ELSE SerializedAt(at, DeclaredAt(at, declared.canonical_name))

SerializedUnimplemented(c, p) ==
    /\ HasClass(c)
    /\ Declaring(c, p) # {}
    /\ ~Unrepresentable(c, p)
    /\ SerializedFor(c, p).property_type.kind = "UnimplementedType"

\* ------------------------------------------------------------------------
\* C10: a stored property whose serialized descriptor has an unimplemented
\* type.  IgnoreUnknown: handling it writes nothing and the call goes on.
\* WriteUnknown: handling it writes the stored value unconverted, with the
\* wire tag of the value's own type, and cannot fail with
\* UnsupportedPropertyConversion.  ErrorOnUnknown: handling it makes the
\* call return UnknownProperty(class_name, stored property name).  Under
\* NoReflection the value is written as stored and the unreachable!() of the
\* branch is never run.
\* ------------------------------------------------------------------------
C10_Step ==
    \A r \in Runs :
       (Handles(r) /\ SerializedUnimplemented(CurrentClass(r), CurrentName(r))) =>
          CASE options.property_behavior = "IgnoreUnknown" -> StepSkips(r)
            [] options.property_behavior = "WriteUnknown" ->
                 StepWritesStored(r,
                     SerializedFor(CurrentClass(r), CurrentName(r)).name)
            [] options.property_behavior = "ErrorOnUnknown" ->
                 StepFails(r, UnknownProperty(CurrentClass(r), CurrentName(r)))
            [] OTHER -> StepWritesStored(r, CurrentName(r))

C10_State ==
    \A r \in active :
       /\ result[r].kind # "Panic"
       /\ result[r].kind = "UnsupportedPropertyConversion"
          => ~SerializedUnimplemented(result[r].class_name,
                                      result[r].property_name)
       /\ \A e \in Entries(r) :
             (IsStored(e)
              /\ SerializedUnimplemented(tree[e.node].class_name, e.stored))
             => /\ options.property_behavior \in {"WriteUnknown", "NoReflection"}
                /\ e.event.tag = WireTag(tree[e.node].properties[e.stored].type)
                /\ e.event.text = tree[e.node].properties[e.stored].data

\* C10: the invariant and the step property together
C10_UnimplementedTypeMatrix == []C10_State /\ [][C10_Step]_vars

\* ErrorOnUnknown has failed on a property of an unimplemented type
C10_Witness ==
    /\ options.property_behavior = "ErrorOnUnknown"
    /\ Done(1)
    /\ result[1].kind = "UnknownProperty"
    /\ SerializedUnimplemented(result[1].class_name, result[1].property_name)
    /\ Len(output[1]) > 1


\* ------------------------------------------------------------------------
\* Implemented target types
\* ------------------------------------------------------------------------
\* the name resolves, and its serialized descriptor has an implemented type
SerializedImplemented(c, p) ==
    /\ HasClass(c)
    /\ Declaring(c, p) # {}
    /\ ~Unrepresentable(c, p)
    /\ SerializedFor(c, p).property_type.kind \in {"Data", "Enum"}

\* the value type the serialized descriptor asks for
TargetType(c, p) ==
    IF SerializedFor(c, p).property_type.kind = "Enum" THEN "Enum"
    ELSE SerializedFor(c, p).property_type.value_type

\* the step writes a converted copy of the stored value, as one element
StepWritesConverted(r, name, target) ==
    /\ output'[r] = Append(output[r],
          Entry(write_value_xml(state[r], name,
                                Value(target, CurrentValue(r).data)).event,
                CurrentNode(r), CurrentName(r)))
    /\ output'[r][Len(output'[r])].event.kind = "property"
    /\ output'[r][Len(output'[r])].event.name = name
    /\ output'[r][Len(output'[r])].event.tag = WireTag(target)
    /\ result'[r] = Pending
    /\ pc'[r] = "instances"
    /\ property_buffer'[r] = Tail(property_buffer[r])

\* ------------------------------------------------------------------------
\* C11: a stored property that resolves to a serialized descriptor with an
\* implemented target type (its Data type, or Enum).  A value of that type
\* is written unchanged; a convertible value is written as a converted copy;
\* both under the serialized descriptor's name.  An inconvertible value makes
\* the call return UnsupportedPropertyConversion with the node's class, the
\* stored property name, the target type and the stored value's type.
\* ------------------------------------------------------------------------
C11_Step ==
    \A r \in Runs :
       (/\ Handles(r)
        /\ use_reflection(options)
        /\ SerializedImplemented(CurrentClass(r), CurrentName(r))) =>
          LET target == TargetType(CurrentClass(r), CurrentName(r))
              name == SerializedFor(CurrentClass(r), CurrentName(r)).name
          IN  CASE CurrentValue(r).type = target -> StepWritesStored(r, name)
                [] <<CurrentValue(r).type, target>> \in Convertible ->
                     StepWritesConverted(r, name, target)
                [] OTHER ->
                     StepFails(r, UnsupportedPropertyConversion(
                                     CurrentClass(r), CurrentName(r), target,
                                     CurrentValue(r).type))

C11_State ==
    \A r \in active :
       /\ \A e \in Entries(r) :
             (/\ IsStored(e)
              /\ use_reflection(options)
              /\ SerializedImplemented(tree[e.node].class_name, e.stored))
             => /\ e.event.name
                     = SerializedFor(tree[e.node].class_name, e.stored).name
                /\ e.event.tag
                     = WireTag(TargetType(tree[e.node].class_name, e.stored))
       /\ result[r].kind = "UnsupportedPropertyConversion"
          => /\ SerializedImplemented(result[r].class_name,
                                      result[r].property_name)
             /\ result[r].expected_type
                  = TargetType(result[r].class_name, result[r].property_name)
             /\ result[r].actual_type # result[r].expected_type
             /\ <<result[r].actual_type, result[r].expected_type>>
                   \notin Convertible

\* C11: the invariant and the step property together
C11_ConversionMatrix == []C11_State /\ [][C11_Step]_vars

\* a call that wrote a renamed converted copy and a renamed unchanged value,
\* and then failed on an inconvertible value
C11_Witness ==
    /\ Done(1)
    /\ result[1].kind = "UnsupportedPropertyConversion"
    /\ \E e \in Entries(1) :
          /\ IsStored(e)
          /\ e.event.name # e.stored
          /\ e.event.tag # WireTag(tree[e.node].properties[e.stored].type)
    /\ \E e \in Entries(1) :
          /\ IsStored(e)
          /\ e.event.name # e.stored
          /\ e.event.tag = WireTag(tree[e.node].properties[e.stored].type)


\* ------------------------------------------------------------------------
\* The shape of the document
\* ------------------------------------------------------------------------
Mark(kind, tag, node) == [kind |-> kind, tag |-> tag, node |-> node]

MarkOf(e) == Mark(e.event.kind, e.event.tag, e.node)

IsStructural(e) == e.node # 0 /\ ~IsProperty(e)

\* the starts and ends of the Items and Properties blocks a call has written
RECURSIVE Shape(_)
Shape(entries) ==
    IF entries = << >> THEN << >>
    ELSE (IF IsStructural(Head(entries)) THEN << MarkOf(Head(entries)) >>
          ELSE << >>) \o Shape(Tail(entries))

\* the depth-first pre-order of a list of nodes, read off the tree alone
RECURSIVE PreOrder(_, _)
PreOrder(t, nodes) ==
    IF nodes = << >> THEN << >>
    ELSE << Mark("start", "Item", Head(nodes)),
            Mark("start", "Properties", Head(nodes)),
            Mark("end", "", Head(nodes)) >>
         \o PreOrder(t, t[Head(nodes)].children)
         \o << Mark("end", "", Head(nodes)) >>
         \o PreOrder(t, Tail(nodes))

IsPrefix(s, t) == Len(s) <= Len(t) /\ s = SubSeq(t, 1, Len(s))

Count(r, kind) ==
    Cardinality({ i \in Positions(r) : output[r][i].event.kind = kind })

\* ------------------------------------------------------------------------
\* C12: the events of a call follow the depth-first pre-order of the tree:
\* the roots in the order of the id list; for each node its Item start, its
\* whole Properties block, its children's Items in stored child order, then
\* its Item end.  At every moment what was written is a prefix of that order,
\* every property element stands inside the Properties block of its node,
\* and after a successful call the order is complete and every start has
\* its end.
\* ------------------------------------------------------------------------
C12_DepthFirstPreOrder ==
    \A r \in active :
       /\ IsPrefix(Shape(output[r]), PreOrder(tree, ids))
       /\ \A i \in Positions(r) :
             IsProperty(output[r][i]) =>
                /\ i > 1
                /\ output[r][i - 1].node = output[r][i].node
                /\ \/ output[r][i - 1].event = StartProperties
                   \/ IsProperty(output[r][i - 1])
       /\ \A i \in Positions(r) :
             output[r][i].event = StartProperties =>
                /\ i > 1
                /\ IsItemStart(output[r][i - 1])
                /\ output[r][i - 1].node = output[r][i].node
       /\ Succeeded(r) =>
             /\ Shape(output[r]) = PreOrder(tree, ids)
             /\ Count(r, "start") = Count(r, "end")

\* a successful call on two distinct roots, the first with grandchildren
C12_Witness ==
    /\ Succeeded(1)
    /\ Len(ids) = 2
    /\ ids[1] # ids[2]
    /\ \E c \in 1..Len(tree[ids[1]].children) :
          tree[tree[ids[1]].children[c]].children # << >>


\* ------------------------------------------------------------------------
\* A writer that can fail: every write of serializer.rs ends in `?`
\* ------------------------------------------------------------------------
\* the error a failed write of the underlying stream is propagated as
WriterError == Result("WriterError", "", NoName, "", "")

\* serializer.rs:164-175: what the head of serialize_instance writes
ItemHead(st, t, id) ==
    LET mapped == map_id(st, id)
        name == write_value_xml(mapped.state, NameProp,
                                Value("String", t[id].name))
    IN  << Entry(StartItem(t[id].class_name, mapped.referent), id, NoName),
           Entry(StartProperties, id, NoName),
           Entry(name.event, id, NoName) >>

\* the writes the next step of call r is about to make, one sequence for
\* each way the step can go; a step that writes nothing has none
NextWrites(r) ==
    CASE pc[r] = "begin" -> { << Entry(StartRoblox, 0, NoName) >> }
      [] pc[r] = "close" -> { << Entry(EndElement, 0, NoName) >> }
      [] pc[r] = "instances" /\ stack[r] = << >> /\ root_idx[r] <= Len(ids) ->
           { ItemHead(state[r], tree, ids[root_idx[r]]) }
      [] pc[r] = "instances" /\ stack[r] = << >> /\ root_idx[r] > Len(ids) ->
           { serialize_shared_strings(state[r], order) :
               order \in ValueOrders(state[r].shared_strings_to_emit) }
           \ { << >> }
      [] pc[r] = "instances" /\ stack[r] # << >> ->
           CASE Top(r).phase = "properties" /\ property_buffer[r] # << >> ->
                  LET outcome == PropertyOutcome(state[r].options,
                                     tree[Top(r).id].class_name,
                                     Head(property_buffer[r])[1],
                                     Head(property_buffer[r])[2])
                  IN  IF outcome.kind = "write"
                      THEN { << Entry(write_value_xml(state[r], outcome.name,
                                                      outcome.value).event,
                                      Top(r).id, Head(property_buffer[r])[1]) >> }
                      ELSE {}
             [] Top(r).phase = "properties" /\ property_buffer[r] = << >> ->
                  { << Entry(EndElement, Top(r).id, NoName) >> }
             [] Top(r).phase = "children"
                  /\ Top(r).next_child <= Len(get_children_ids(tree[Top(r).id])) ->
                  { ItemHead(state[r], tree,
                       get_children_ids(tree[Top(r).id])[Top(r).next_child]) }
             [] OTHER -> { << Entry(EndElement, Top(r).id, NoName) >> }
      [] OTHER -> {}

\* the EmitState a failed step may leave: ids are mapped before the element
\* that carries their referent is handed to the writer
StatesAtFailure(r, events) ==
    IF IsItemStart(events[1])
    THEN { map_id(state[r], events[1].node).state }
    ELSE IF IsStored(events[1])
         THEN LET outcome == PropertyOutcome(state[r].options,
                                 tree[Top(r).id].class_name,
                                 Head(property_buffer[r])[1],
                                 Head(property_buffer[r])[2])
              IN  { state[r],
                    write_value_xml(state[r], outcome.name,
                                    outcome.value).state }
         ELSE { state[r] }

\* one of the writes of the next step fails: the writes before it stay, the
\* error is propagated through every `?` up to the caller
WriterFails(r) ==
    /\ r \in active
    /\ \E events \in NextWrites(r) :
       \E k \in 0..(Len(events) - 1) :
       \E st \in StatesAtFailure(r, events) :
          /\ output' = [output EXCEPT ![r] = @ \o SubSeq(events, 1, k)]
          /\ state' = [state EXCEPT ![r] = st]
          /\ consulted' = [consulted EXCEPT ![r] =
                IF IsStored(events[1]) /\ use_reflection(state[r].options)
                THEN @ \cup {<<tree[Top(r).id].class_name, events[1].stored>>}
                ELSE @]
    /\ result' = [result EXCEPT ![r] = WriterError]
    /\ pc' = [pc EXCEPT ![r] = "done"]
    /\ stack' = [stack EXCEPT ![r] = << >>]
    /\ property_buffer' = [property_buffer EXCEPT ![r] = << >>]
    /\ UNCHANGED <<inputs, root_idx, query>>

NextIo ==
    \/ \E r \in Runs : EncodeBegin(r)
    \/ \E r \in Runs : SerializeRoot(r)
    \/ \E r \in Runs : SerializeProperty(r)
    \/ \E r \in Runs : CloseProperties(r)
    \/ \E r \in Runs : SerializeChild(r)
    \/ \E r \in Runs : LeaveInstance(r)
    \/ \E r \in Runs : SerializeSharedStrings(r)
    \/ \E r \in Runs : EncodeEnd(r)
    \/ \E r \in Runs : WriterFails(r)

SpecIo == Init /\ [][NextIo]_vars


\* the stored properties of node n on which the property loop returns an
\* error, and that error
Offending(n) ==
    { p \in Stored(n) :
        PropertyOutcome(options, tree[n].class_name, p,
                        tree[n].properties[p]).kind = "fail" }

ErrorOf(n, p) ==
    PropertyOutcome(options, tree[n].class_name, p, tree[n].properties[p]).error

ItemStarts(r) == { i \in Positions(r) : IsItemStart(output[r][i]) }

LastItem(r) == CHOOSE i \in ItemStarts(r) : \A j \in ItemStarts(r) : j <= i

PropertyErrors == {"UnknownProperty", "UnsupportedPropertyConversion"}

\* ------------------------------------------------------------------------
\* C13: encoding fails fast.  Once a step has returned an error (an
\* UnknownProperty, an UnsupportedPropertyConversion or a failure of the
\* writer) the call is over with that error: no event is written any more,
\* the document is not closed, and what was written before stays.  An
\* error about a property is that of the first offending property: every
\* node opened before has none, the node opened last has no offending
\* property of a smaller stored name, and nothing was written after the
\* properties of that node that precede it.
\* ------------------------------------------------------------------------
C13_Step ==
    \A r \in Runs :
       /\ IsPrefix(output[r], output'[r])
       /\ result[r] # Pending => (output'[r] = output[r] /\ result'[r] = result[r])

C13_State ==
    \A r \in active :
       /\ result[r].kind \notin {"Pending", "Ok"} =>
             /\ Done(r)
             /\ output[r] = << >> \/ Count(r, "start") > Count(r, "end")
       /\ result[r].kind \in PropertyErrors =>
             /\ ItemStarts(r) # {}
             /\ \A e \in Entries(r) : e.event.tag # "SharedStrings"
             /\ \A j \in ItemStarts(r) :
                   j # LastItem(r) => Offending(output[r][j].node) = {}
             /\ LET n == output[r][LastItem(r)].node
                IN  \E p \in Offending(n) :
                       /\ \A q \in Offending(n) : StrLessEq(p, q)
                       /\ result[r] = ErrorOf(n, p)
                       /\ \A j \in Positions(r) :
                             j > LastItem(r) =>
                                /\ output[r][j].node = n
                                /\ \/ output[r][j].event = StartProperties
                                   \/ /\ IsProperty(output[r][j])
                                      /\ \/ output[r][j].stored = NoName
                                         \/ StrLess(output[r][j].stored, p)

\* C13: the invariant and the step property together
C13_FailFast == []C13_State /\ [][C13_Step]_vars

\* a call that failed on a property of the third node it opened, after the
\* first two were written in full
C13_Witness ==
    /\ Done(1)
    /\ result[1].kind \in PropertyErrors
    /\ Cardinality(ItemStarts(1)) = 3
    /\ Count(1, "end") >= 3


\* ------------------------------------------------------------------------
\* C14: a node whose class the database does not know.  The resolver returns
\* None for every property name, without panic, so each stored property of
\* the node is handled as an unknown property: skipped under IgnoreUnknown,
\* written as stored under the stored name under WriteUnknown, and the
\* reason for UnknownProperty(class_name, property_name) under
\* ErrorOnUnknown.
\* ------------------------------------------------------------------------
C14_Step ==
    \A r \in Runs :
       (Handles(r) /\ ~HasClass(CurrentClass(r))) =>
          CASE options.property_behavior = "IgnoreUnknown" -> StepSkips(r)
            [] options.property_behavior = "WriteUnknown" ->
                 StepWritesStored(r, CurrentName(r))
            [] options.property_behavior = "ErrorOnUnknown" ->
                 StepFails(r, UnknownProperty(CurrentClass(r), CurrentName(r)))
            [] OTHER -> TRUE

C14_State ==
    /\ \A c \in ClassNames : \A p \in PropertyNames :
          ~HasClass(c) =>
             /\ find_property_descriptors(c, p) = NoDescriptors(0)
             /\ find_serialized_property_descriptor(c, p).kind = "None"
             /\ find_canonical_property_descriptor(c, p).kind = "None"
    /\ \A r \in active :
          /\ result[r] # Panic
          /\ \A n \in NodeIds : \A p \in Stored(n) :
                ~HasClass(tree[n].class_name) =>
                   CASE options.property_behavior = "IgnoreUnknown" ->
                          /\ WrittenFor(r, n, p) = 0
                          /\ result[r].class_name # tree[n].class_name
                     [] options.property_behavior = "WriteUnknown" ->
                          /\ WrittenFor(r, n, p) <= Visits(r, n)
                          /\ Succeeded(r) => WrittenFor(r, n, p) = Visits(r, n)
                          /\ result[r].class_name # tree[n].class_name
                     [] options.property_behavior = "ErrorOnUnknown" ->
                          /\ WrittenFor(r, n, p) = 0
                          /\ Visits(r, n) > 0 => ~Succeeded(r)
                     [] OTHER -> TRUE

\* C14: the invariant and the step property together
C14_UnknownClassMatrix == []C14_State /\ [][C14_Step]_vars

\* ErrorOnUnknown has ended a call on a stored property of a node of an
\* unknown class, after the resolver was asked about it
C14_Witness ==
    /\ Done(1)
    /\ result[1].kind = "UnknownProperty"
    /\ ~HasClass(result[1].class_name)
    /\ <<result[1].class_name, result[1].property_name>> \in consulted[1]
    /\ \E e \in Entries(1) : IsItemStart(e) /\ ~HasClass(e.event.class)


\* where the SharedStrings element is opened in the output of a call
Blocks(r) == { i \in Positions(r) : output[r][i].event = StartSharedStrings }

\* the call is past serialize_shared_strings
PastSharedStrings(r) == pc[r] = "close" \/ Succeeded(r)

\* ------------------------------------------------------------------------
\* C15: the SharedStrings block is written if and only if a blob was added to
\* the EmitState during the traversal.  When written, it is written once,
\* right after the end of the last root Item, and only the closing of the
\* document root follows it.  When no blob was added, the output has no
\* SharedStrings element and no SharedString entry at all.
\* ------------------------------------------------------------------------
C15_SharedStringsBlock ==
    \A r \in active :
       /\ ~PastSharedStrings(r) =>
             /\ Blocks(r) = {}
             /\ DictionaryEntries(r) = {}
       /\ PastSharedStrings(r) =>
             /\ Blocks(r) # {} <=> DOMAIN state[r].shared_strings_to_emit # {}
             /\ Blocks(r) # {} <=> Added(r) # {}
             /\ Cardinality(Blocks(r)) <= 1
             /\ Blocks(r) = {} => DictionaryEntries(r) = {}
             /\ \A i \in Blocks(r) :
                   /\ i > 2
                   /\ output[r][i - 1] = Entry(EndElement, ids[Len(ids)], NoName)
                   /\ \A j \in 2..(i - 1) : output[r][j].node # 0
                   /\ \A j \in Positions(r) : j > i => output[r][j].node = 0
                   /\ \A j \in DictionaryEntries(r) : j > i
       /\ Succeeded(r) =>
             /\ output[r][Len(output[r])] = Entry(EndElement, 0, NoName)
             /\ \A i \in Blocks(r) :
                   /\ i < Len(output[r]) - 1
                   /\ output[r][Len(output[r]) - 1] = Entry(EndElement, 0, NoName)
             /\ Blocks(r) = {} =>
                   \A j \in 2..(Len(output[r]) - 1) : output[r][j].node # 0

\* a successful call that wrote a block of two entries after two roots
C15_Witness ==
    /\ Succeeded(1)
    /\ Len(ids) = 2
    /\ Blocks(1) # {}
    /\ Cardinality(DictionaryEntries(1)) = 2


\* the Name element of node n, as serialize_instance writes it
NameElement(n) == PropertyElement(WireTag("String"), NameProp, tree[n].name)

\* the step of call r that opens an Item
Opens(r) ==
    /\ r \in active
    /\ Len(output'[r]) > Len(output[r])
    /\ IsItemStart(output'[r][Len(output[r]) + 1])

\* ------------------------------------------------------------------------
\* C16: every Item's Properties block begins with the Name property: right
\* after the Item start and the Properties start comes a string element
\* named Name whose value is the node's name field, under every behavior and
\* for every class, known or not.  It is written in the step that opens the
\* Item, before any stored property of the node is looked at: that step asks
\* the resolver nothing and leaves every stored property of the node in the
\* buffer.  The resolver is asked about the name Name only for a node that
\* stores a property of that name.
\* ------------------------------------------------------------------------
C16_State ==
    \A r \in active :
       /\ \A i \in ItemStarts(r) :
             /\ Len(output[r]) >= i + 2
             /\ output[r][i + 1] = Entry(StartProperties, output[r][i].node, NoName)
             /\ output[r][i + 2]
                  = Entry(NameElement(output[r][i].node), output[r][i].node, NoName)
       /\ \A q \in consulted[r] :
             q[2] = NameProp =>
                \E n \in Visited(r) :
                   tree[n].class_name = q[1] /\ NameProp \in Stored(n)

C16_Step ==
    \A r \in Runs :
       Opens(r) =>
          /\ Len(output'[r]) = Len(output[r]) + 3
          /\ consulted'[r] = consulted[r]
          /\ result'[r] = Pending
          /\ { property_buffer'[r][k][1] : k \in 1..Len(property_buffer'[r]) }
                = Stored(output'[r][Len(output[r]) + 1].node)

\* C16: the invariant and the step property together
C16_NameFirst == []C16_State /\ [][C16_Step]_vars

\* under IgnoreUnknown a node of an unknown class was opened below a node
\* of a known class, each with its Name element
C16_Witness ==
    /\ options.property_behavior = "IgnoreUnknown"
    /\ \E i, j \in ItemStarts(1) :
          /\ i < j
          /\ HasClass(output[1][i].event.class)
          /\ ~HasClass(output[1][j].event.class)
          /\ output[1][j + 2].event.name = NameProp
          /\ output[1][j + 2].event.text = tree[output[1][j].node].name


\* ------------------------------------------------------------------------
\* One call run alone, from its first step to its last, as a function of the
\* tree, the id list and the options
\* ------------------------------------------------------------------------
Progress(st, out, res) == [state |-> st, output |-> out, result |-> res]

RECURSIVE AloneProperties(_, _, _)
AloneProperties(acc, id, buffer) ==
    IF buffer = << >> THEN acc
    ELSE LET outcome == PropertyOutcome(acc.state.options, tree[id].class_name,
                                        Head(buffer)[1], Head(buffer)[2])
             written == write_value_xml(acc.state, outcome.name, outcome.value)
         IN  CASE outcome.kind = "write" ->
                    AloneProperties(
                       Progress(written.state,
                                Append(acc.output,
                                       Entry(written.event, id, Head(buffer)[1])),
                                Pending),
                       id, Tail(buffer))
               [] outcome.kind = "skip" -> AloneProperties(acc, id, Tail(buffer))
               [] OTHER -> Progress(acc.state, acc.output, outcome.error)

RECURSIVE AloneInstances(_, _)
AloneInstances(acc, nodes) ==
    IF nodes = << >> \/ acc.result # Pending THEN acc
    ELSE LET id == Head(nodes)
             name == write_value_xml(map_id(acc.state, id).state, NameProp,
                                     Value("String", tree[id].name))
             head == Progress(name.state,
                              acc.output \o ItemHead(acc.state, tree, id), Pending)
             buffer == sort_unstable_by_key(
                          CHOOSE order \in IterationOrders(tree[id].properties) :
                             TRUE)
             props == AloneProperties(head, id, buffer)
             closed == Progress(props.state,
                                Append(props.output, Entry(EndElement, id, NoName)),
                                Pending)
             kids == AloneInstances(closed, get_children_ids(tree[id]))
             left == Progress(kids.state,
                              Append(kids.output, Entry(EndElement, id, NoName)),
                              Pending)
         IN  IF props.result # Pending THEN props
             ELSE IF kids.result # Pending THEN kids
             ELSE AloneInstances(left, Tail(nodes))

\* the call up to the return of the last serialize_instance
AloneTraversal ==
    AloneInstances(Progress(EmitStateNew(options),
                            << Entry(StartRoblox, 0, NoName) >>, Pending), ids)

\* the outputs a call can end with whose traversal came to alone
AloneOutputs(alone) ==
    IF alone.result # Pending THEN { alone.output }
    ELSE { alone.output \o serialize_shared_strings(alone.state, order)
                        \o << Entry(EndElement, 0, NoName) >> :
           order \in ValueOrders(alone.state.shared_strings_to_emit) }

AloneResult(alone) == IF alone.result # Pending THEN alone.result ELSE Ok

\* function f is part of function g
Within(f, g) == DOMAIN f \subseteq DOMAIN g /\ \A x \in DOMAIN f : f[x] = g[x]

\* the variables of one call
Call(r) == <<pc[r], root_idx[r], stack[r], property_buffer[r], state[r],
             output[r], result[r], consulted[r]>>

\* ------------------------------------------------------------------------
\* C17: two encode calls on the same tree, their steps interleaved in any
\* order, each with an EmitState of its own.  A step of one call changes
\* nothing of the other call and nothing of the tree.  At every moment what a
\* call has written, numbered and added is part of what the same call run
\* alone writes, numbers and adds, and when it is over its referent
\* numbering, its shared strings, its output and its result are those of
\* the call run alone.
\* ------------------------------------------------------------------------
C17_Step ==
    /\ tree' = tree
    /\ ids' = ids
    /\ \A r \in Runs : \A other \in Runs \ {r} :
          Call(r)' # Call(r) => Call(other)' = Call(other)

C17_State ==
    LET alone == AloneTraversal
    IN  \A r \in active :
           /\ \/ IsPrefix(output[r], alone.output)
              \/ /\ alone.result = Pending
                 /\ \E out \in AloneOutputs(alone) : IsPrefix(output[r], out)
           /\ Within(state[r].referent_map, alone.state.referent_map)
           /\ Within(state[r].shared_strings_to_emit,
                     alone.state.shared_strings_to_emit)
           /\ Done(r) =>
                 /\ output[r] \in AloneOutputs(alone)
                 /\ result[r] = AloneResult(alone)
                 /\ state[r] = alone.state

\* C17: the invariant and the step property together
C17_Independent == []C17_State /\ [][C17_Step]_vars

\* both calls are in the middle of the traversal, one ahead of the other,
\* each having numbered nodes and the one ahead having added a blob
C17_Witness ==
    /\ active = Runs
    /\ pc[1] = "instances" /\ stack[1] # << >>
    /\ pc[2] = "instances" /\ stack[2] # << >>
    /\ state[1].next_referent > state[2].next_referent
    /\ state[2].next_referent > 0
    /\ DOMAIN state[1].shared_strings_to_emit # {}
    /\ DOMAIN state[2].shared_strings_to_emit = {}


\* positions i < j hold property elements of one Properties block
SameProperties(r, i, j) ==
    /\ i < j
    /\ IsProperty(output[r][i])
    /\ IsProperty(output[r][j])
    /\ output[r][i].node = output[r][j].node
    /\ \A k \in i..j : output[r][k].event # StartProperties

\* ------------------------------------------------------------------------
\* C18: within one Properties block no two property elements carry the same
\* name, the Name element of the node included, for every node and every
\* behavior.
\* ------------------------------------------------------------------------
C18_DistinctNames ==
    \A r \in active : \A i, j \in Positions(r) :
       SameProperties(r, i, j) =>
          output[r][i].event.name # output[r][j].event.name


Mapped(r) == DOMAIN state[r].referent_map

\* ------------------------------------------------------------------------
\* C19: in every reachable EmitState the referent map is injective, its
\* values are exactly 0..next_referent-1 and next_referent is the number of
\* mapped ids.  map_id on a mapped id returns the referent it has and leaves
\* the EmitState as it is; on an unmapped id it returns next_referent and
\* leaves every mapped id as it is.  A referent once given to an id is never
\* changed by a step, every Item carries the referent of its node, and no
\* two Items of distinct nodes carry the same referent.
\* ------------------------------------------------------------------------
C19_State ==
    \A r \in active :
       /\ InjectiveReferents(r)
       /\ Referents(r) = 0..(state[r].next_referent - 1)
       /\ state[r].next_referent = Cardinality(Mapped(r))
       /\ \A id \in NodeIds :
             LET m == map_id(state[r], id)
             IN  IF id \in Mapped(r)
                 THEN /\ m.referent = state[r].referent_map[id]
                      /\ m.state = state[r]
                 ELSE /\ m.referent = state[r].next_referent
                      /\ m.state.next_referent = state[r].next_referent + 1
                      /\ DOMAIN m.state.referent_map = Mapped(r) \cup {id}
                      /\ m.state.referent_map[id] = m.referent
                      /\ Within(state[r].referent_map, m.state.referent_map)
       /\ \A i \in ItemStarts(r) :
             /\ output[r][i].node \in Mapped(r)
             /\ output[r][i].event.referent
                  = state[r].referent_map[output[r][i].node]
       /\ \A i, j \in ItemStarts(r) :
             output[r][i].node # output[r][j].node =>
                output[r][i].event.referent # output[r][j].event.referent

C19_Step ==
    \A r \in Runs :
       /\ Within(state[r].referent_map, state'[r].referent_map)
       /\ state'[r].next_referent >= state[r].next_referent

\* C19: the invariant and the step property together
C19_ReferentsStable == []C19_State /\ [][C19_Step]_vars

\* a node was opened a second time, after another node and a Ref target had
\* been numbered in between
C19_Witness ==
    /\ \E n \in NodeIds : Visits(1, n) = 2
    /\ state[1].next_referent = 3
    /\ \E id \in Mapped(1) : id \notin Visited(1)

====
